---- MODULE Spec2Model ----
(***************************************************************************)
(* Model of GeminiKeyManager.getAvailableKey (lib/gemini-manager.ts): a    *)
(* pool of API keys, a shared Redis store holding one rotation cursor and  *)
(* one usage counter per (key index, calendar minute), and any number of   *)
(* concurrent callers.  Every `await redis...` is one atomic step at the   *)
(* store; the code between two awaits runs without interleaving and is     *)
(* folded into the step of the await that precedes it.                     *)
(***************************************************************************)
EXTENDS Integers, Sequences, FiniteSets

(* ------------------------------ bounds --------------------------------- *)
NumProcs == 2          \* concurrent callers
MaxCalls == 7          \* calls started in a concurrent run
MaxCallsSeq == 11      \* calls started in a sequential run
MaxCallsFault == 3     \* calls started in a run with store failures
MaxFaults == 1         \* store calls that fail in a run
MaxTicks == 2          \* clock steps in a run
TickSeconds == 60      \* seconds the clock advances per step
MaxInitCursor == 2     \* value the persistent cursor may already hold
MaxCallsLate == 4      \* calls started in a run with slow callers
MaxCallsLive == 4      \* calls started in a run where every store call returns
MaxCallsSecret == 4    \* calls started in a run on pools of like size
MaxCallsLoad == 2      \* calls started in a run after loading an environment
MaxCallsSlow == 7      \* calls started in a run with slow store calls
MaxTurns == 4          \* user messages the agent receives in a run
MaxFunctionCalls == 2  \* function calls in one response of the model
MaxCallsHalf == 4      \* calls started in a run with half-minute clock steps
MaxHalfTicks == 5      \* half-minute clock steps in a run
HalfSeconds == 30      \* seconds the clock advances per half-minute step

(* ------------------------- program constants --------------------------- *)
MAX_REQUESTS_PER_MINUTE == 3
EXPIRE_SECONDS == 120
SECONDS_PER_MINUTE == 60

Procs == 1..NumProcs
Pools == {<<>>, <<"A">>, <<"A", "B">>}
PoolsSeq == {<<"A">>, <<"A", "B">>, <<"A", "B", "C">>}
PoolsFault == {<<"A">>, <<"A", "B">>}
PoolsLate == {<<"A">>}
PoolsSecret == {<<"A", "B">>, <<"B", "A">>, <<"A", "A">>}
Indexes == UNION {0..(Len(k) - 1) : k \in Pools \cup PoolsSeq \cup PoolsFault}
Times == {k * TickSeconds : k \in 0..MaxTicks}
           \cup {k * HalfSeconds : k \in 0..MaxHalfTicks}
           \cup {0, EXPIRE_SECONDS}

NoKey == "none"
NoMinute == <<>>
NoTTL == 0
NoStart == -1
NoDate == -1

Min(a, b) == IF a <= b THEN a ELSE b

(* `${getFullYear()}-${getMonth()}-${getDate()}:${getHours()}:${getMinutes()}` *)
(* of the instant t (seconds): the date, the hour and the minute fields.   *)
CurrentMinute(t) ==
  <<t \div (24 * 60 * SECONDS_PER_MINUTE),
    (t \div (60 * SECONDS_PER_MINUTE)) % 24,
    (t \div SECONDS_PER_MINUTE) % 60>>

Windows == {CurrentMinute(t) : t \in Times}

(* A credential index in a calendar minute: what history is kept about. *)
Slots == Indexes \X Windows

(* Mutant: the empty-pool check is missing. *)
PoolEmptyNever(keys) == FALSE

(* Mutant: the usage key leaves the calendar minute out. *)
UsageKeyNoMinute(index, minute) == <<index, CurrentMinute(0)>>

(* Mutant: the scan always starts at the first credential. *)
StartIndexZero(counter, n) == 0

(* Mutant: the scan examines the cursor's candidate again and again. *)
CandidateIndexSame(start, i, n) == start % n

(* Mutant: the scan starts one past the cursor's candidate. *)
CandidateIndexNext(start, i, n) == (start + i + 1) % n

(* Mutant: only the request that creates the counter passes the limit. *)
UnderLimitFirstOnly(currentUsage) == currentUsage = 1

(* Mutant: one request too many passes the limit. *)
UnderLimitLoose(currentUsage) == currentUsage <= MAX_REQUESTS_PER_MINUTE + 1

(* Mutant: the limit is compared with < instead of <=. *)
UnderLimitStrict(currentUsage) == currentUsage < MAX_REQUESTS_PER_MINUTE

(* Mutant: the expiry is set after every INCR. *)
FirstUseAlways(currentUsage) == TRUE

(* Mutant: the expiry is also set by the call that sees the counter at 2. *)
FirstUseOrSecond(currentUsage) == currentUsage <= 2

(* Lines 14-20: process.env gives a string, possibly empty, for a variable *)
(* that is set and undefined for one that is not.                          *)
KEY_SLOTS == 10
Unset == "undefined"
Truthy(v) == v # Unset /\ v # ""

(* Mutant: loading stops at the first variable that is unset or empty. *)
RECURSIVE LoadFromUntilGap(_, _, _)
LoadFromUntilGap(e, j, keys) ==
  IF j > KEY_SLOTS \/ ~Truthy(e[j]) THEN keys
  ELSE LoadFromUntilGap(e, j + 1, Append(keys, e[j]))

(* The loop of lines 15-20 from GOOGLE_API_KEY<j> on, keys pushed so far. *)
RECURSIVE LoadFrom(_, _, _)
LoadFrom(e, j, keys) ==
  IF j > KEY_SLOTS THEN keys
  ELSE LoadFrom(e, j + 1, IF Truthy(e[j]) THEN Append(keys, e[j]) ELSE keys)

(* Lines 12-20: KEYS after the module is loaded in the environment e. *)
LoadKeys(e) == LoadFrom(e, 1, <<>>)

(* The environment that sets GOOGLE_API_KEY1.. to the credentials of k. *)
EnvOf(k) == [j \in 1..KEY_SLOTS |-> IF j <= Len(k) THEN k[j] ELSE Unset]

(* Environments that differ in three of the variables, each unset, empty   *)
(* or holding a credential.                                                *)
EnvSlots == {1, 2, KEY_SLOTS}
Envs ==
  {e \in [1..KEY_SLOTS -> {Unset, "", "A", "B"}] :
     \A j \in (1..KEY_SLOTS) \ EnvSlots : e[j] = Unset}

(* Line 17 of the agent: const MAX_TOOL_CALLS = 10 *)
MAX_TOOL_CALLS == 10

(* KEYS.length === 0 *)
PoolEmpty(keys) == Len(keys) = 0

(* `gemini:usage:${index}:${currentMinute}` *)
UsageKey(index, minute) == <<index, minute>>

UsageKeys == {UsageKey(x, w) : x \in Indexes, w \in Windows}

(* Mutant: every INCR counts two. *)
INCRTwice(v) == v + 2

(* redis INCR: the new value of a counter holding v (0 when absent). *)
INCR(v) == v + 1

(* globalCounter % KEYS.length *)
StartIndex(counter, n) == counter % n

(* (startIndex + i) % KEYS.length *)
CandidateIndex(start, i, n) == (start + i) % n

(* currentUsage <= MAX_REQUESTS_PER_MINUTE *)
UnderLimit(currentUsage) == currentUsage <= MAX_REQUESTS_PER_MINUTE

(* currentUsage === 1 *)
FirstUse(currentUsage) == currentUsage = 1

(* Mutant: the expiry is a quarter of the 120 seconds. *)
DeadlineShort(t) == t + EXPIRE_SECONDS \div 4

(* redis EXPIRE key 120 issued at the instant t: the key's deadline. *)
Deadline(t) == t + EXPIRE_SECONDS

VARIABLES
  env,           \* process.env: GOOGLE_API_KEY1..GOOGLE_API_KEY10
  KEYS,          \* the pool, loaded once
  now,           \* wall clock, seconds
  cursor,        \* redis 'gemini:global_request_counter'
  usage,         \* redis usage counters, 0 = key absent
  ttl,           \* expiry deadline of each usage key, NoTTL = none
  pc,
  date,          \* per call: the clock as read at the start, NoDate = not read
  currentMinute, globalCounter, startIndex, i, currentUsage,
  outcome, result,
  examined,      \* per call: <<index, currentUsage>> of each answered INCR
  storeCalls,    \* per call: store calls issued, by kind
  failed,        \* per call: the store call that rejected, if any
  allFull,       \* per call: every counter of its window >= quota at start
  endMinute,     \* per call: the calendar minute when the call finished
  lastStart,     \* per caller: startIndex of its previous call
  cursor0,       \* cursor value before the run
  applied,       \* history: INCRs the store applied, per slot
  selected,      \* history: calls that returned the credential, per slot
  calls,         \* calls started so far
  maxCalls,      \* calls that may start in this run
  faults,        \* store failures and abandoned calls that may still happen
  agentPc,       \* FinancialAgent: where processMessageStream stands
  turn,          \* FinancialAgent: user messages received so far
  messages,      \* supabase 'chat_messages': <<turn, role>> of each row
  userSaved,     \* this turn: what the insert of the user message answered
  acquisitions,  \* this turn: calls of getAvailableKey
  modelRequested, \* this turn: a message was sent to the model
  toolCallCount, pending, currentResponse, fullResponse

vars == <<env, KEYS, now, cursor, usage, ttl, pc, date, currentMinute,
          globalCounter,
          startIndex, i, currentUsage, outcome, result, examined, storeCalls,
          failed, allFull, endMinute, lastStart, cursor0, applied, selected,
          calls, maxCalls, faults, agentPc, turn, messages, userSaved,
          acquisitions, modelRequested, toolCallCount, pending,
          currentResponse, fullResponse>>

locals == <<date, currentMinute, globalCounter, startIndex, i, currentUsage>>
history == <<cursor0, applied, selected>>
limits == <<calls, maxCalls, faults>>
agent == <<agentPc, turn, messages, userSaved, acquisitions, modelRequested,
           toolCallCount, pending, currentResponse, fullResponse>>
manager == <<env, KEYS, now, cursor, usage, ttl, pc, locals, outcome, result,
             examined, storeCalls, failed, allFull, endMinute, lastStart,
             history, limits>>

N == Len(KEYS)

NoCalls == [cursor |-> 0, incr |-> 0, expire |-> 0]

(* What the model answers to a message: no candidate, a candidate with     *)
(* function calls, or a candidate with a text that may be empty.           *)
NoCandidate == [candidate |-> FALSE, functionCalls |-> 0, text |-> FALSE]

Responses ==
  {NoCandidate}
    \cup {[candidate |-> TRUE, functionCalls |-> k, text |-> FALSE] :
            k \in 1..MaxFunctionCalls}
    \cup {[candidate |-> TRUE, functionCalls |-> 0, text |-> t] :
            t \in BOOLEAN}

(* The agent before its first user message. *)
AgentInit ==
  /\ agentPc = "idle"
  /\ turn = 0
  /\ messages = <<>>
  /\ userSaved = "none"
  /\ acquisitions = 0
  /\ modelRequested = FALSE
  /\ toolCallCount = 0
  /\ pending = 0
  /\ currentResponse = NoCandidate
  /\ fullResponse = FALSE

(* The state after the module is loaded from one of the environments and  *)
(* before any call.                                                        *)
InitFrom(envs, ncalls, nfaults, cursors) ==
  /\ env \in envs
  /\ KEYS = LoadKeys(env)
  /\ AgentInit
  /\ now = 0
  /\ cursor \in cursors
  /\ cursor0 = cursor
  /\ usage = [k \in UsageKeys |-> 0]
  /\ ttl = [k \in UsageKeys |-> NoTTL]
  /\ pc = [p \in Procs |-> "idle"]
  /\ date = [p \in Procs |-> NoDate]
  /\ currentMinute = [p \in Procs |-> NoMinute]
  /\ globalCounter = [p \in Procs |-> 0]
  /\ startIndex = [p \in Procs |-> 0]
  /\ i = [p \in Procs |-> 0]
  /\ currentUsage = [p \in Procs |-> 0]
  /\ outcome = [p \in Procs |-> "none"]
  /\ result = [p \in Procs |-> NoKey]
  /\ examined = [p \in Procs |-> <<>>]
  /\ storeCalls = [p \in Procs |-> NoCalls]
  /\ failed = [p \in Procs |-> "none"]
  /\ allFull = [p \in Procs |-> FALSE]
  /\ endMinute = [p \in Procs |-> NoMinute]
  /\ lastStart = [p \in Procs |-> NoStart]
  /\ applied = [s \in Slots |-> 0]
  /\ selected = [s \in Slots |-> 0]
  /\ calls = 0
  /\ maxCalls = ncalls
  /\ faults = nfaults

(* The same for the environments that configure the pools one by one from  *)
(* GOOGLE_API_KEY1 on.                                                     *)
InitWith(pools, ncalls, nfaults, cursors) ==
  InitFrom({EnvOf(k) : k \in pools}, ncalls, nfaults, cursors)

(* A fresh store, concurrent callers within one calendar minute, a store   *)
(* that answers every request.                                             *)
Init == InitWith(Pools, MaxCalls, 0, {0})

(* The call ends: a return or a throw. *)
Finish(p, how, key) ==
  /\ pc' = [pc EXCEPT ![p] = "done"]
  /\ outcome' = [outcome EXCEPT ![p] = how]
  /\ result' = [result EXCEPT ![p] = key]
  /\ endMinute' = [endMinute EXCEPT ![p] = CurrentMinute(now)]

(* Lines 27-34: entry, the empty-pool check and the window identifier. *)
Enter(p) ==
  /\ pc[p] \in {"idle", "done"}
  /\ calls < maxCalls
  /\ calls' = calls + 1
  /\ date' = [date EXCEPT ![p] = IF PoolEmpty(KEYS) THEN NoDate ELSE now]
  /\ currentMinute' = [currentMinute EXCEPT ![p] =
                         IF PoolEmpty(KEYS) THEN NoMinute
                                            ELSE CurrentMinute(now)]
  /\ globalCounter' = [globalCounter EXCEPT ![p] = 0]
  /\ startIndex' = [startIndex EXCEPT ![p] = 0]
  /\ i' = [i EXCEPT ![p] = 0]
  /\ currentUsage' = [currentUsage EXCEPT ![p] = 0]
  /\ examined' = [examined EXCEPT ![p] = <<>>]
  /\ storeCalls' = [storeCalls EXCEPT ![p] = NoCalls]
  /\ failed' = [failed EXCEPT ![p] = "none"]
  /\ lastStart' = [lastStart EXCEPT ![p] =
                     IF globalCounter[p] > 0 THEN startIndex[p] ELSE @]
  /\ allFull' = [allFull EXCEPT ![p] =
                   /\ N > 0
                   /\ \A x \in 0..(N - 1) :
                        usage[UsageKey(x, CurrentMinute(now))]
                          >= MAX_REQUESTS_PER_MINUTE]
  /\ IF PoolEmpty(KEYS)
       THEN Finish(p, "Misconfigured", NoKey)
       ELSE /\ pc' = [pc EXCEPT ![p] = "incrCursor"]
            /\ outcome' = [outcome EXCEPT ![p] = "none"]
            /\ result' = [result EXCEPT ![p] = NoKey]
            /\ endMinute' = [endMinute EXCEPT ![p] = NoMinute]
  /\ UNCHANGED <<env, KEYS, now, cursor, usage, ttl, history, maxCalls, faults>>

(* A call of getAvailableKey by a caller other than the agent. *)
Call(p) == Enter(p) /\ UNCHANGED agent

(* Mutant: the cursor is kept by the caller and never written to the store. *)
IncrCursorLocal(p) ==
  /\ pc[p] = "incrCursor"
  /\ cursor' = cursor
  /\ globalCounter' = [globalCounter EXCEPT ![p] = INCR(cursor)]
  /\ startIndex' = [startIndex EXCEPT ![p] = StartIndex(INCR(cursor), N)]
  /\ storeCalls' = [storeCalls EXCEPT ![p].cursor = @ + 1]
  /\ i' = [i EXCEPT ![p] = 0]
  /\ pc' = [pc EXCEPT ![p] = "incrUsage"]
  /\ UNCHANGED <<agent, env, KEYS, now, usage, ttl, date, currentMinute,
                 currentUsage, outcome, result, examined, failed, allFull,
                 endMinute, lastStart, history, limits>>

(* Line 38-39: await redis.incr('gemini:global_request_counter'). *)
IncrCursor(p) ==
  /\ pc[p] = "incrCursor"
  /\ cursor' = INCR(cursor)
  /\ globalCounter' = [globalCounter EXCEPT ![p] = cursor']
  /\ startIndex' = [startIndex EXCEPT ![p] = StartIndex(cursor', N)]
  /\ storeCalls' = [storeCalls EXCEPT ![p].cursor = @ + 1]
  /\ i' = [i EXCEPT ![p] = 0]
  /\ pc' = [pc EXCEPT ![p] = "incrUsage"]
  /\ UNCHANGED <<agent, env, KEYS, now, usage, ttl, date, currentMinute,
                 currentUsage, outcome, result, examined, failed, allFull,
                 endMinute, lastStart, history, limits>>

(* Mutant: the scan stops one candidate early. *)
CheckLimitShort(p, index, u) ==
  IF UnderLimit(u)
    THEN /\ Finish(p, "Accepted", KEYS[index + 1])
         /\ selected' = [selected EXCEPT ![<<index, currentMinute[p]>>] = @ + 1]
         /\ i' = i
    ELSE /\ selected' = selected
         /\ i' = [i EXCEPT ![p] = @ + 1]
         /\ IF i[p] + 1 < N - 1
              THEN /\ pc' = [pc EXCEPT ![p] = "incrUsage"]
                   /\ UNCHANGED <<outcome, result, endMinute>>
              ELSE Finish(p, "Exhausted", NoKey)

(* Mutant: an accepted candidate does not end the scan while candidates    *)
(* remain.                                                                 *)
CheckLimitNoStop(p, index, u) ==
  IF UnderLimit(u) /\ i[p] + 1 >= N
    THEN /\ Finish(p, "Accepted", KEYS[index + 1])
         /\ selected' = [selected EXCEPT ![<<index, currentMinute[p]>>] = @ + 1]
         /\ i' = i
    ELSE /\ selected' = selected
         /\ i' = [i EXCEPT ![p] = @ + 1]
         /\ IF i[p] + 1 < N
              THEN /\ pc' = [pc EXCEPT ![p] = "incrUsage"]
                   /\ UNCHANGED <<outcome, result, endMinute>>
              ELSE Finish(p, "Exhausted", NoKey)

(* Mutant: a scan that found every candidate over the limit is made once   *)
(* more before giving up.                                                  *)
CheckLimitRetryOnce(p, index, u) ==
  IF UnderLimit(u)
    THEN /\ Finish(p, "Accepted", KEYS[index + 1])
         /\ selected' = [selected EXCEPT ![<<index, currentMinute[p]>>] = @ + 1]
         /\ i' = i
    ELSE /\ selected' = selected
         /\ i' = [i EXCEPT ![p] = @ + 1]
         /\ IF i[p] + 1 < 2 * N
              THEN /\ pc' = [pc EXCEPT ![p] = "incrUsage"]
                   /\ UNCHANGED <<outcome, result, endMinute>>
              ELSE Finish(p, "Exhausted", NoKey)

(* Lines 56-75 after the counter is known: accept, go on, or give up. *)
CheckLimit(p, index, u) ==
  IF UnderLimit(u)
    THEN /\ Finish(p, "Accepted", KEYS[index + 1])
         /\ selected' = [selected EXCEPT ![<<index, currentMinute[p]>>] = @ + 1]
         /\ i' = i
    ELSE /\ selected' = selected
         /\ i' = [i EXCEPT ![p] = @ + 1]
         /\ IF i[p] + 1 < N
              THEN /\ pc' = [pc EXCEPT ![p] = "incrUsage"]
                   /\ UNCHANGED <<outcome, result, endMinute>>
              ELSE Finish(p, "Exhausted", NoKey)

(* Mutant: the INCR of a candidate that turns out over the limit is taken  *)
(* back with a DECR.                                                       *)
IncrUsageRollback(p) ==
  /\ pc[p] = "incrUsage"
  /\ LET index == CandidateIndex(startIndex[p], i[p], N)
         keyUsageKey == UsageKey(index, currentMinute[p])
         u == INCR(usage[keyUsageKey])
     IN /\ usage' = [usage EXCEPT ![keyUsageKey] =
                       IF UnderLimit(u) THEN u ELSE u - 1]
        /\ applied' = [applied EXCEPT ![<<index, currentMinute[p]>>] = @ + 1]
        /\ currentUsage' = [currentUsage EXCEPT ![p] = u]
        /\ examined' = [examined EXCEPT ![p] = Append(@, <<index, u>>)]
        /\ storeCalls' = [storeCalls EXCEPT ![p].incr = @ + 1]
        /\ IF FirstUse(u)
             THEN /\ pc' = [pc EXCEPT ![p] = "expire"]
                  /\ UNCHANGED <<i, outcome, result, endMinute, selected>>
             ELSE CheckLimit(p, index, u)
  /\ UNCHANGED <<agent, env, KEYS, now, cursor, ttl, date, currentMinute,
                 globalCounter, startIndex, failed, allFull, lastStart,
                 cursor0, limits>>

(* Mutant: the counter is addressed by the credential, so that equal       *)
(* credentials share the counter of the first of them.                     *)
IncrUsageBySecret(p) ==
  /\ pc[p] = "incrUsage"
  /\ LET index == CandidateIndex(startIndex[p], i[p], N)
         first == CHOOSE j \in 0..index :
                    /\ KEYS[j + 1] = KEYS[index + 1]
                    /\ \A h \in 0..(j - 1) : KEYS[h + 1] # KEYS[index + 1]
         keyUsageKey == UsageKey(first, currentMinute[p])
         u == INCR(usage[keyUsageKey])
     IN /\ usage' = [usage EXCEPT ![keyUsageKey] = u]
        /\ applied' = [applied EXCEPT ![<<first, currentMinute[p]>>] = @ + 1]
        /\ currentUsage' = [currentUsage EXCEPT ![p] = u]
        /\ examined' = [examined EXCEPT ![p] = Append(@, <<index, u>>)]
        /\ storeCalls' = [storeCalls EXCEPT ![p].incr = @ + 1]
        /\ IF FirstUse(u)
             THEN /\ pc' = [pc EXCEPT ![p] = "expire"]
                  /\ UNCHANGED <<i, outcome, result, endMinute, selected>>
             ELSE CheckLimit(p, index, u)
  /\ UNCHANGED <<agent, env, KEYS, now, cursor, ttl, date, currentMinute,
                 globalCounter, startIndex, failed, allFull, lastStart,
                 cursor0, limits>>

(* Mutant: the limit is checked against the value read before the INCR. *)
IncrUsageCheckFirst(p) ==
  /\ pc[p] = "incrUsage"
  /\ LET index == CandidateIndex(startIndex[p], i[p], N)
         keyUsageKey == UsageKey(index, currentMinute[p])
         u == INCR(usage[keyUsageKey])
     IN /\ usage' = [usage EXCEPT ![keyUsageKey] = u]
        /\ applied' = [applied EXCEPT ![<<index, currentMinute[p]>>] = @ + 1]
        /\ currentUsage' = [currentUsage EXCEPT ![p] = u]
        /\ examined' = [examined EXCEPT ![p] = Append(@, <<index, u>>)]
        /\ storeCalls' = [storeCalls EXCEPT ![p].incr = @ + 1]
        /\ IF FirstUse(u)
             THEN /\ pc' = [pc EXCEPT ![p] = "expire"]
                  /\ UNCHANGED <<i, outcome, result, endMinute, selected>>
             ELSE CheckLimit(p, index, usage[keyUsageKey])
  /\ UNCHANGED <<agent, env, KEYS, now, cursor, ttl, date, currentMinute,
                 globalCounter, startIndex, failed, allFull, lastStart,
                 cursor0, limits>>

(* Mutant: the usage key is built from the minute of the clock at the      *)
(* time of the INCR.                                                       *)
IncrUsageFreshWindow(p) ==
  /\ pc[p] = "incrUsage"
  /\ LET index == CandidateIndex(startIndex[p], i[p], N)
         keyUsageKey == UsageKey(index, CurrentMinute(now))
         u == INCR(usage[keyUsageKey])
     IN /\ usage' = [usage EXCEPT ![keyUsageKey] = u]
        /\ applied' = [applied EXCEPT ![<<index, CurrentMinute(now)>>] = @ + 1]
        /\ currentUsage' = [currentUsage EXCEPT ![p] = u]
        /\ examined' = [examined EXCEPT ![p] = Append(@, <<index, u>>)]
        /\ storeCalls' = [storeCalls EXCEPT ![p].incr = @ + 1]
        /\ IF FirstUse(u)
             THEN /\ pc' = [pc EXCEPT ![p] = "expire"]
                  /\ UNCHANGED <<i, outcome, result, endMinute, selected>>
             ELSE CheckLimit(p, index, u)
  /\ UNCHANGED <<agent, env, KEYS, now, cursor, ttl, date, currentMinute,
                 globalCounter, startIndex, failed, allFull, lastStart,
                 cursor0, limits>>

(* Lines 41-49 (and 56-75 when the counter is not 1): the candidate's INCR. *)
IncrUsage(p) ==
  /\ pc[p] = "incrUsage"
  /\ LET index == CandidateIndex(startIndex[p], i[p], N)
         keyUsageKey == UsageKey(index, currentMinute[p])
         u == INCR(usage[keyUsageKey])
     IN /\ usage' = [usage EXCEPT ![keyUsageKey] = u]
        /\ applied' = [applied EXCEPT ![<<index, currentMinute[p]>>] = @ + 1]
        /\ currentUsage' = [currentUsage EXCEPT ![p] = u]
        /\ examined' = [examined EXCEPT ![p] = Append(@, <<index, u>>)]
        /\ storeCalls' = [storeCalls EXCEPT ![p].incr = @ + 1]
        /\ IF FirstUse(u)
             THEN /\ pc' = [pc EXCEPT ![p] = "expire"]
                  /\ UNCHANGED <<i, outcome, result, endMinute, selected>>
             ELSE CheckLimit(p, index, u)
  /\ UNCHANGED <<agent, env, KEYS, now, cursor, ttl, date, currentMinute,
                 globalCounter, startIndex, failed, allFull, lastStart,
                 cursor0, limits>>

(* Lines 51-54 then 56-75: await redis.expire(keyUsageKey, 120). *)
Expire(p) ==
  /\ pc[p] = "expire"
  /\ LET index == CandidateIndex(startIndex[p], i[p], N)
         keyUsageKey == UsageKey(index, currentMinute[p])
     IN /\ ttl' = [ttl EXCEPT ![keyUsageKey] =
                     IF usage[keyUsageKey] > 0 THEN Deadline(now) ELSE @]
        /\ storeCalls' = [storeCalls EXCEPT ![p].expire = @ + 1]
        /\ CheckLimit(p, index, currentUsage[p])
  /\ UNCHANGED <<agent, env, KEYS, now, cursor, usage, date, currentMinute,
                 globalCounter, startIndex, currentUsage, examined, failed,
                 allFull, lastStart, cursor0, applied, limits>>

(* The clock advances by d seconds; the store drops every key whose       *)
(* deadline is reached.                                                    *)
Elapse(d) ==
  /\ now' = now + d
  /\ usage' = [k \in UsageKeys |->
                 IF ttl[k] # NoTTL /\ ttl[k] <= now' THEN 0 ELSE usage[k]]
  /\ ttl' = [k \in UsageKeys |->
               IF ttl[k] # NoTTL /\ ttl[k] <= now' THEN NoTTL ELSE ttl[k]]
  /\ UNCHANGED <<agent, env, KEYS, cursor, pc, locals, outcome, result,
                 examined, storeCalls, failed, allFull, endMinute, lastStart,
                 history, limits>>

(* A whole minute passes. *)
Tick ==
  /\ now < MaxTicks * TickSeconds
  /\ Elapse(TickSeconds)

(* The lifetime of a usage key passes. *)
Lapse ==
  /\ now < EXPIRE_SECONDS
  /\ Elapse(EXPIRE_SECONDS)

(* Half a minute passes. *)
HalfTick ==
  /\ now < MaxHalfTicks * HalfSeconds
  /\ Elapse(HalfSeconds)

(* A store call rejects: the call throws. *)
Throw(p, which) ==
  /\ faults > 0
  /\ faults' = faults - 1
  /\ failed' = [failed EXCEPT ![p] = which]
  /\ Finish(p, "StoreError", NoKey)
  /\ UNCHANGED <<agent, env, KEYS, now, locals, examined, allFull, lastStart,
                 cursor0, selected, calls, maxCalls>>

(* Mutant: a rejected cursor INCR is swallowed and the scan starts at 0. *)
IncrCursorFailFallback(p) ==
  /\ pc[p] = "incrCursor"
  /\ faults > 0
  /\ faults' = faults - 1
  /\ failed' = [failed EXCEPT ![p] = "cursor"]
  /\ storeCalls' = [storeCalls EXCEPT ![p].cursor = @ + 1]
  /\ startIndex' = [startIndex EXCEPT ![p] = 0]
  /\ pc' = [pc EXCEPT ![p] = "incrUsage"]
  /\ UNCHANGED <<agent, env, KEYS, now, cursor, usage, ttl, date,
                 currentMinute, globalCounter, i, currentUsage, outcome,
                 result, examined, allFull, endMinute, lastStart, history,
                 calls, maxCalls>>

(* Line 38 rejects: the request or its answer was lost, so the store may   *)
(* or may not have applied the INCR; the error propagates to the caller.   *)
IncrCursorFail(p) ==
  /\ pc[p] = "incrCursor"
  /\ \E done \in BOOLEAN : cursor' = IF done THEN INCR(cursor) ELSE cursor
  /\ storeCalls' = [storeCalls EXCEPT ![p].cursor = @ + 1]
  /\ Throw(p, "cursor")
  /\ UNCHANGED <<usage, ttl, applied>>

(* Mutant: a rejected usage INCR is swallowed and the scan goes on to the   *)
(* next candidate.                                                         *)
IncrUsageFailSkip(p) ==
  /\ pc[p] = "incrUsage"
  /\ faults > 0
  /\ faults' = faults - 1
  /\ failed' = [failed EXCEPT ![p] = "usage"]
  /\ storeCalls' = [storeCalls EXCEPT ![p].incr = @ + 1]
  /\ i' = [i EXCEPT ![p] = @ + 1]
  /\ IF i[p] + 1 < N
       THEN UNCHANGED <<pc, outcome, result, endMinute>>
       ELSE Finish(p, "Exhausted", NoKey)
  /\ UNCHANGED <<agent, env, KEYS, now, cursor, usage, ttl, date,
                 currentMinute, globalCounter, startIndex, currentUsage,
                 examined, allFull, lastStart, history, calls, maxCalls>>

(* Line 49 rejects: as above, for the candidate's usage counter. *)
IncrUsageFail(p) ==
  /\ pc[p] = "incrUsage"
  /\ LET index == CandidateIndex(startIndex[p], i[p], N)
         keyUsageKey == UsageKey(index, currentMinute[p])
     IN \E done \in BOOLEAN :
          /\ usage' = [usage EXCEPT ![keyUsageKey] =
                         IF done THEN INCR(@) ELSE @]
          /\ applied' = [applied EXCEPT ![<<index, currentMinute[p]>>] =
                           IF done THEN @ + 1 ELSE @]
  /\ storeCalls' = [storeCalls EXCEPT ![p].incr = @ + 1]
  /\ Throw(p, "usage")
  /\ UNCHANGED <<cursor, ttl>>

(* Line 53 rejects: the await throws out of getAvailableKey. *)
ExpireFail(p) ==
  /\ pc[p] = "expire"
  /\ LET index == CandidateIndex(startIndex[p], i[p], N)
         keyUsageKey == UsageKey(index, currentMinute[p])
     IN \E done \in BOOLEAN :
          ttl' = [ttl EXCEPT ![keyUsageKey] =
                    IF done /\ usage[keyUsageKey] > 0
                      THEN Deadline(now) ELSE @]
  /\ storeCalls' = [storeCalls EXCEPT ![p].expire = @ + 1]
  /\ Throw(p, "expire")
  /\ UNCHANGED <<cursor, usage, applied>>

(* The caller gives the call up while it is suspended on an await (the    *)
(* host's timeout, a dropped request): nothing is sent to the store any   *)
(* more and nothing already done there is undone.                          *)
Abandon(p) ==
  /\ pc[p] \in {"incrCursor", "incrUsage", "expire"}
  /\ faults > 0
  /\ faults' = faults - 1
  /\ failed' = [failed EXCEPT ![p] = "abandon"]
  /\ Finish(p, "Abandoned", NoKey)
  /\ UNCHANGED <<agent, env, KEYS, now, cursor, usage, ttl, locals, examined,
                 storeCalls, allFull, lastStart, history, calls, maxCalls>>

Next ==
  \/ \E p \in Procs : Call(p)
  \/ \E p \in Procs : IncrCursor(p)
  \/ \E p \in Procs : IncrUsage(p)
  \/ \E p \in Procs : Expire(p)

Spec == Init /\ [][Next]_vars

(* Concurrent callers within one calendar minute and a store whose calls   *)
(* may reject.                                                             *)
InitFault == InitWith(PoolsFault, MaxCallsFault, MaxFaults, {0})

NextFault ==
  \/ \E p \in Procs : Call(p)
  \/ \E p \in Procs : IncrCursor(p)
  \/ \E p \in Procs : IncrCursorFail(p)
  \/ \E p \in Procs : IncrUsage(p)
  \/ \E p \in Procs : IncrUsageFail(p)
  \/ \E p \in Procs : Expire(p)
  \/ \E p \in Procs : ExpireFail(p)
  \/ \E p \in Procs : Abandon(p)

SpecFault == InitFault /\ [][NextFault]_vars

(* One caller awaiting each call before the next (test-gemini-manager.ts), *)
(* while the clock runs; a store that answers every request and holds the  *)
(* cursor left by earlier runs.                                            *)
InitSeq == InitWith(PoolsSeq, MaxCallsSeq, 0, 0..MaxInitCursor)

NextSeq ==
  \/ Call(1)
  \/ IncrCursor(1)
  \/ IncrUsage(1)
  \/ Expire(1)
  \/ Tick

SpecSeq == InitSeq /\ [][NextSeq]_vars

(* One caller awaiting each call before the next, a store whose calls may  *)
(* reject, calls that may be given up, and a clock that runs in half       *)
(* minutes.                                                                *)
InitHalf == InitWith(PoolsFault, MaxCallsHalf, MaxFaults, {0})

NextHalf ==
  \/ Call(1)
  \/ IncrCursor(1)
  \/ IncrCursorFail(1)
  \/ IncrUsage(1)
  \/ IncrUsageFail(1)
  \/ Expire(1)
  \/ ExpireFail(1)
  \/ Abandon(1)
  \/ HalfTick

SpecHalf == InitHalf /\ [][NextHalf]_vars

(* Concurrent callers on one credential, and a clock that may run for the  *)
(* lifetime of a usage key while calls are suspended on an await.          *)
InitLate == InitWith(PoolsLate, MaxCallsLate, 0, {0})

NextLate ==
  \/ \E p \in Procs : Call(p)
  \/ \E p \in Procs : IncrCursor(p)
  \/ \E p \in Procs : IncrUsage(p)
  \/ \E p \in Procs : Expire(p)
  \/ Lapse

SpecLate == InitLate /\ [][NextLate]_vars

(* One caller on two credentials whose store calls may take any number of *)
(* half minutes to answer.                                                *)
InitSlow == InitWith({<<"A", "B">>}, MaxCallsSlow, 0, {0})

NextSlow ==
  \/ Call(1)
  \/ IncrCursor(1)
  \/ IncrUsage(1)
  \/ Expire(1)
  \/ HalfTick

SpecSlow == InitSlow /\ [][NextSlow]_vars

(* The store answers the call p is suspended on. *)
StoreAnswers(p) == IncrCursor(p) \/ IncrUsage(p) \/ Expire(p)

(* Concurrent callers within one calendar minute and a store that answers  *)
(* every request sooner or later.                                          *)
InitLive == InitWith(Pools, MaxCallsLive, 0, {0})

NextLive ==
  \/ \E p \in Procs : Call(p)
  \/ \E p \in Procs : StoreAnswers(p)

SpecLive ==
  InitLive /\ [][NextLive]_vars /\ \A p \in Procs : WF_vars(StoreAnswers(p))

(* Concurrent callers within one calendar minute on pools of one size that *)
(* hold different credentials, or the same credential twice.               *)
(* Calls of several callers after the module was loaded in any of the     *)
(* environments of Envs.                                                  *)
InitLoad == InitFrom(Envs, MaxCallsLoad, 0, {0})

SpecLoad == InitLoad /\ [][Next]_vars

InitSecret == InitWith(PoolsSecret, MaxCallsSecret, 0, {0})

SpecSecret == InitSecret /\ [][Next]_vars

(* ------------------------ the window identifier ----------------------- *)
(* Line 34 in full: the clock is counted in seconds from 1 January 2024    *)
(* 00:00:00 local time, the Date getters take the instant apart and the    *)
(* template string writes the fields in decimal, without padding.          *)
EPOCH_YEAR == 2024

IsLeap(y) == (y % 4 = 0 /\ y % 100 # 0) \/ y % 400 = 0

(* Days of the month m (0 = January, as getMonth() counts) of the year y. *)
DaysInMonth(y, m) ==
  IF m = 1 THEN (IF IsLeap(y) THEN 29 ELSE 28)
  ELSE IF m \in {3, 5, 8, 10} THEN 30
  ELSE 31

(* getFullYear(), getMonth(), getDate() of the day that lies d days after  *)
(* the first day of month m of year y.                                     *)
RECURSIVE Calendar(_, _, _)
Calendar(y, m, d) ==
  IF d < DaysInMonth(y, m)
    THEN [year |-> y, month |-> m, date |-> d + 1]
    ELSE IF m = 11 THEN Calendar(y + 1, 0, d - DaysInMonth(y, m))
                   ELSE Calendar(y, m + 1, d - DaysInMonth(y, m))

(* The fields the Date getters return at the instant t. *)
DateFields(t) ==
  LET day == Calendar(EPOCH_YEAR, 0, t \div (24 * 60 * SECONDS_PER_MINUTE))
  IN [year |-> day.year, month |-> day.month, date |-> day.date,
      hours |-> (t \div (60 * SECONDS_PER_MINUTE)) % 24,
      minutes |-> (t \div SECONDS_PER_MINUTE) % 60]

(* `${n}` of a non-negative integer: its decimal digits. *)
RECURSIVE Digits(_)
Digits(n) ==
  LET digit == <<"0", "1", "2", "3", "4", "5", "6", "7", "8", "9">>
  IN IF n < 10 THEN <<digit[n + 1]>>
               ELSE Digits(n \div 10) \o <<digit[(n % 10) + 1]>>

(* Mutant: the fields are written one after the other, no separators. *)
WindowIdentifierNoSeparators(f) ==
  Digits(f.year) \o Digits(f.month) \o Digits(f.date)
    \o Digits(f.hours) \o Digits(f.minutes)

(* `${year}-${month}-${date}:${hours}:${minutes}` *)
WindowIdentifier(f) ==
  Digits(f.year) \o <<"-">> \o Digits(f.month) \o <<"-">> \o Digits(f.date)
    \o <<":">> \o Digits(f.hours) \o <<":">> \o Digits(f.minutes)

(* The instant s seconds into the minute h:m of the day d days after the   *)
(* start of the clock.                                                     *)
At(d, h, m, s) == ((d * 24 + h) * 60 + m) * SECONDS_PER_MINUTE + s

(* Instants at which the clock is read: the same minute twice, minutes     *)
(* whose fields have the same digits in a row (1:11 and 11:1, the 11th at  *)
(* 1 and the 1st at 11, 11 February and 1 December), the leap day, the     *)
(* turn of the year and the same minute a year later.                      *)
Instants ==
  {At(0, 0, 0, 0), At(0, 1, 11, 0), At(0, 1, 11, 59), At(0, 11, 1, 0),
   At(10, 1, 1, 0), At(41, 1, 11, 0), At(59, 1, 11, 0), At(335, 1, 11, 0),
   At(365, 23, 59, 59), At(366, 0, 0, 0), At(366, 1, 11, 0)}

(* Lines 32-34: a caller reads the clock and builds its window identifier. *)
ReadClock(p) ==
  /\ date' = [date EXCEPT ![p] = now]
  /\ currentMinute' = [currentMinute EXCEPT ![p] =
                         WindowIdentifier(DateFields(now))]
  /\ UNCHANGED <<agent, env, KEYS, now, cursor, usage, ttl, pc, globalCounter,
                 startIndex, i, currentUsage, outcome, result, examined,
                 storeCalls, failed, allFull, endMinute, lastStart, history,
                 limits>>

(* Time passes up to a later instant. *)
ClockJump ==
  /\ \E t \in Instants : t > now /\ now' = t
  /\ UNCHANGED <<agent, env, KEYS, cursor, usage, ttl, pc, locals, outcome,
                 result, examined, storeCalls, failed, allFull, endMinute,
                 lastStart, history, limits>>

(* Callers in any number of processes reading one clock. *)
InitWindow == InitWith(PoolsLate, 0, 0, {0})

NextWindow ==
  \/ \E p \in Procs : ReadClock(p)
  \/ ClockJump

SpecWindow == InitWindow /\ [][NextWindow]_vars

(* ------------------------- the calling handlers ------------------------ *)
(* Error messages are sequences of characters, so that includes() is a     *)
(* search and not an equality.                                             *)

(* The Exhausted error of line 75. *)
RATE_LIMITED_MESSAGE ==
  <<"A", "l", "l", " ", "G", "e", "m", "i", "n", "i", " ", "A", "P", "I",
    " ", "k", "e", "y", "s", " ", "a", "r", "e", " ", "c", "u", "r", "r",
    "e", "n", "t", "l", "y", " ", "r", "a", "t", "e", " ", "l", "i", "m",
    "i", "t", "e", "d", ".", " ", "P", "l", "e", "a", "s", "e", " ", "t",
    "r", "y", " ", "a", "g", "a", "i", "n", " ", "l", "a", "t", "e", "r",
    ".">>

(* Messages of the errors a rejected store call throws; their text is the  *)
(* store client's, one of them empty.                                      *)
StoreErrorMessages ==
  {<<>>,
   <<"f", "e", "t", "c", "h", " ", "f", "a", "i", "l", "e", "d">>}

USER_NOT_FOUND ==
  <<"U", "s", "e", "r", " ", "n", "o", "t", " ", "f", "o", "u", "n", "d">>

RATE_LIMIT ==
  <<"r", "a", "t", "e", " ", "l", "i", "m", "i", "t">>

FAILED_TO_PARSE_SMS ==
  <<"F", "a", "i", "l", "e", "d", " ", "t", "o", " ", "p", "a", "r", "s",
    "e", " ", "S", "M", "S">>

(* The messages of the errors a call ending as `how` throws. *)
ErrorMessages(how) ==
  IF how = "Exhausted" THEN {RATE_LIMITED_MESSAGE}
  ELSE IF how = "StoreError" THEN StoreErrorMessages
  ELSE {}

(* String.prototype.includes *)
Includes(s, sub) ==
  \E k \in 0..(Len(s) - Len(sub)) : SubSeq(s, k + 1, k + Len(sub)) = sub

(* app/api/chat/route.ts, the catch block of POST. *)
ChatErrorResponse(message) ==
  IF Includes(message, USER_NOT_FOUND)
    THEN [status |-> 401, error |-> "User not found. Please sign in again.",
          details |-> message]
  ELSE IF Includes(message, RATE_LIMIT)
    THEN [status |-> 429,
          error |-> "Service is busy. Please try again in a moment.",
          details |-> message]
  ELSE [status |-> 500, error |-> "Internal Server Error",
        details |-> message]

(* app/api/parse-sms/route.ts, the catch block of POST. *)
ParseSmsErrorResponse(message) ==
  [status |-> 500, success |-> FALSE,
   error |-> IF message # <<>> THEN message ELSE FAILED_TO_PARSE_SMS]

(* --------------------- FinancialAgent (lib/agent.ts) -------------------- *)
(* What a turn of the agent leaves in supabase and sends to the model.     *)
(* Tools, the chat history and the prompt are outside the model.           *)
Row(role) == <<turn, role>>

(* saveMessage: the insert; an error of supabase is logged and dropped. *)
Inserted(role, error) == IF error THEN messages ELSE Append(messages, Row(role))

(* processMessageStream up to the session: the user is looked up and the   *)
(* session found or created; either may throw.                             *)
ProcessMessageStream ==
  /\ agentPc \in {"idle", "done", "failed"}
  /\ turn < MaxTurns
  /\ turn' = turn + 1
  /\ \E thrown \in BOOLEAN :
       agentPc' = IF thrown THEN "failed" ELSE "saveUser"
  /\ userSaved' = "none"
  /\ acquisitions' = 0
  /\ modelRequested' = FALSE
  /\ toolCallCount' = 0
  /\ pending' = 0
  /\ currentResponse' = NoCandidate
  /\ fullResponse' = FALSE
  /\ UNCHANGED <<messages, manager>>

(* await this.saveMessage(finalSessionId, 'user', userMessage) *)
SaveUserMessage ==
  /\ agentPc = "saveUser"
  /\ \E error \in BOOLEAN :
       /\ messages' = Inserted("user", error)
       /\ userSaved' = IF error THEN "error" ELSE "ok"
  /\ agentPc' = "acquire"
  /\ UNCHANGED <<turn, acquisitions, modelRequested, toolCallCount, pending,
                 currentResponse, fullResponse, manager>>

(* const apiKey = await GeminiKeyManager.getAvailableKey(): the call. *)
Acquire ==
  /\ agentPc = "acquire"
  /\ Enter(1)
  /\ acquisitions' = acquisitions + 1
  /\ agentPc' = "acquiring"
  /\ UNCHANGED <<turn, messages, userSaved, modelRequested, toolCallCount,
                 pending, currentResponse, fullResponse>>

(* Mutant: the agent goes on to the model whatever the call answered. *)
AcquireReturnAnyway ==
  /\ agentPc = "acquiring"
  /\ pc[1] = "done"
  /\ agentPc' = "stream"
  /\ UNCHANGED <<turn, messages, userSaved, acquisitions, modelRequested,
                 toolCallCount, pending, currentResponse, fullResponse,
                 manager>>

(* The call has answered: with a credential the model and the chat are set *)
(* up and the stream is handed to the caller; an error is thrown on.       *)
AcquireReturn ==
  /\ agentPc = "acquiring"
  /\ pc[1] = "done"
  /\ agentPc' = IF outcome[1] = "Accepted" THEN "stream" ELSE "failed"
  /\ UNCHANGED <<turn, messages, userSaved, acquisitions, modelRequested,
                 toolCallCount, pending, currentResponse, fullResponse,
                 manager>>

(* chat.sendMessage: a request to the model, answered or rejected. *)
SendTo(next) ==
  /\ modelRequested' = TRUE
  /\ \/ \E r \in Responses : currentResponse' = r /\ agentPc' = next
     \/ currentResponse' = NoCandidate /\ agentPc' = "failed"

(* generateStream, first lines: the locals and the user message sent. *)
SendMessage ==
  /\ agentPc = "stream"
  /\ toolCallCount' = 0
  /\ fullResponse' = FALSE
  /\ SendTo("loop")
  /\ UNCHANGED <<turn, messages, userSaved, acquisitions, pending, manager>>

(* while (toolCallCount < MAX_TOOL_CALLS) *)
LoopAgain == toolCallCount < MAX_TOOL_CALLS

(* The head of the loop: the response is taken apart.  Function calls are  *)
(* listed for execution; a text ends the loop and so does a response       *)
(* without candidate.                                                      *)
LoopHead ==
  /\ agentPc = "loop"
  /\ IF LoopAgain /\ currentResponse.candidate
       THEN IF currentResponse.functionCalls > 0
              THEN /\ pending' = currentResponse.functionCalls
                   /\ agentPc' = "tools"
                   /\ UNCHANGED fullResponse
              ELSE /\ fullResponse' = currentResponse.text
                   /\ agentPc' = "saveModel"
                   /\ UNCHANGED pending
       ELSE /\ agentPc' = "saveModel"
            /\ UNCHANGED <<pending, fullResponse>>
  /\ UNCHANGED <<turn, messages, userSaved, acquisitions, modelRequested,
                 toolCallCount, currentResponse, manager>>

(* One round of for (const part of functionCalls): the count goes up and   *)
(* the tool runs; executeTool catches what the tool throws.                *)
ExecuteTool ==
  /\ agentPc = "tools"
  /\ pending > 0
  /\ toolCallCount' = toolCallCount + 1
  /\ pending' = pending - 1
  /\ UNCHANGED <<agentPc, turn, messages, userSaved, acquisitions,
                 modelRequested, currentResponse, fullResponse, manager>>

(* currentResponse = await chat.sendMessage(functionResponses) *)
SendFunctionResponses ==
  /\ agentPc = "tools"
  /\ pending = 0
  /\ SendTo("loop")
  /\ UNCHANGED <<turn, messages, userSaved, acquisitions, toolCallCount,
                 pending, fullResponse, manager>>

(* After the loop: the answer is saved when there is one. *)
SaveModelMessage ==
  /\ agentPc = "saveModel"
  /\ IF fullResponse
       THEN \E error \in BOOLEAN : messages' = Inserted("model", error)
       ELSE UNCHANGED messages
  /\ agentPc' = "done"
  /\ UNCHANGED <<turn, userSaved, acquisitions, modelRequested, toolCallCount,
                 pending, currentResponse, fullResponse, manager>>

(* The agent alone on the limiter, one user message after the other. *)
PoolsAgent == {<<>>, <<"A">>}

InitAgent == InitWith(PoolsAgent, MaxTurns, 0, {0})

NextAgent ==
  \/ ProcessMessageStream
  \/ SaveUserMessage
  \/ Acquire
  \/ IncrCursor(1)
  \/ IncrUsage(1)
  \/ Expire(1)
  \/ AcquireReturn
  \/ SendMessage
  \/ LoopHead
  \/ ExecuteTool
  \/ SendFunctionResponses
  \/ SaveModelMessage

SpecAgent == InitAgent /\ [][NextAgent]_vars

(* ------------------------------ claims --------------------------------- *)
Done(p) == pc[p] = "done"
InFlight(p) == pc[p] \in {"incrCursor", "incrUsage", "expire"}
Last(seq) == seq[Len(seq)]
WindowOf(s) == s[2]
InWindow(s) == CurrentMinute(now) = WindowOf(s)

(* Calls in flight that carry the slot's window: the calls that can still  *)
(* race on the slot's counter.                                             *)
Racing(s) ==
  Cardinality({p \in Procs : InFlight(p) /\ currentMinute[p] = WindowOf(s)})

(* C1: within a one-minute window, under any interleaving, the number of   *)
(* calls that returned a credential is at most the quota plus the number   *)
(* of concurrent calls still racing on that window's counters.             *)
QuotaSoftBound ==
  \A s \in Slots :
    InWindow(s) => selected[s] <= MAX_REQUESTS_PER_MINUTE + Racing(s)

(* C1 witness: a credential has been returned quota times by one caller's  *)
(* calls while another caller's call is in flight in the same window.      *)
QuotaReachedWhileRacing ==
  \E s \in Slots :
    /\ InWindow(s)
    /\ selected[s] = MAX_REQUESTS_PER_MINUTE
    /\ Racing(s) >= 1
    /\ \E p \in Procs : Done(p) /\ outcome[p] = "Accepted"
                        /\ currentMinute[p] = WindowOf(s)

(* C2: with one sequential caller, within a window, the attempts against   *)
(* a credential (the INCRs of its counter) select it exactly quota times   *)
(* in a row, the first quota of them, and every later attempt skips it.    *)
SequentialQuota ==
  \A s \in Slots :
    (InWindow(s) /\ pc[1] # "expire") =>
      selected[s] = Min(applied[s], MAX_REQUESTS_PER_MINUTE)

(* C2 witness: a credential selected quota times and then skipped, in a    *)
(* pool of several credentials.                                            *)
SkippedAfterQuota ==
  \E s \in Slots :
    /\ InWindow(s) /\ N >= 2 /\ Done(1)
    /\ selected[s] = MAX_REQUESTS_PER_MINUTE
    /\ applied[s] > MAX_REQUESTS_PER_MINUTE

(* The scenario of C3: pool [A, B, C], fresh counters, one window, the     *)
(* first call drawing start = 0; CallNo numbers the sequential calls.      *)
Scenario ==
  /\ KEYS = <<"A", "B", "C">>
  /\ (cursor0 + 1) % 3 = 0
  /\ now = 0
CallNo == cursor - cursor0

(* C3 as stated: calls 1-3 return A, calls 4-6 return B, calls 7-9 return  *)
(* C.                                                                      *)
ScenarioSticky ==
  (Scenario /\ Done(1) /\ CallNo \in 1..9) =>
    result[1] = KEYS[((CallNo - 1) \div MAX_REQUESTS_PER_MINUTE) + 1]

(* C3 amended: the nine calls return A, B, C, A, B, C, A, B, C; the call   *)
(* numbered n sees its credential's counter at ((n - 1) div 3) + 1.        *)
ScenarioRoundRobin ==
  (Scenario /\ Done(1) /\ CallNo \in 1..9) =>
    /\ outcome[1] = "Accepted"
    /\ result[1] = KEYS[((CallNo - 1) % 3) + 1]
    /\ currentUsage[1] = ((CallNo - 1) \div 3) + 1

(* C3 witness: the ninth call of the scenario has returned C at counter 3. *)
ScenarioNinthCall ==
  /\ Scenario /\ Done(1) /\ CallNo = 9
  /\ result[1] = "C" /\ currentUsage[1] = 3

(* No quota pressure: no counter was ever taken past the quota. *)
NoPressure == \A s \in Slots : applied[s] <= MAX_REQUESTS_PER_MINUTE

(* C4: with one sequential caller the starting index advances by exactly   *)
(* 1 modulo N from each call to the next, and while no counter exceeds the *)
(* quota the call returns the credential at its starting index.            *)
RoundRobinSpread ==
  /\ (pc[1] \in {"incrUsage", "expire", "done"} /\ lastStart[1] # NoStart) =>
       startIndex[1] = (lastStart[1] + 1) % N
  /\ (Done(1) /\ NoPressure) =>
       /\ outcome[1] = "Accepted"
       /\ result[1] = KEYS[startIndex[1] + 1]

(* C4 witness: a call that wrapped from the last index to index 0 of a     *)
(* three-credential pool and returned the first credential.                *)
RoundRobinWrapped ==
  /\ N = 3 /\ Done(1) /\ NoPressure
  /\ lastStart[1] = 2 /\ startIndex[1] = 0 /\ result[1] = KEYS[1]

ExhaustedTwoCallsPerCandidate ==
  \A p \in Procs :
    (Done(p) /\ outcome[p] = "Exhausted") =>
      /\ storeCalls[p].incr + storeCalls[p].expire = 2 * N
      /\ storeCalls[p].cursor = 1

(* C6 amended: a call failing with Exhausted makes N store calls for the   *)
(* candidates, one INCR each and no EXPIRE, and 1 for the cursor.          *)
ExhaustedOneCallPerCandidate ==
  \A p \in Procs :
    (Done(p) /\ outcome[p] = "Exhausted") =>
      storeCalls[p] = [cursor |-> 1, incr |-> N, expire |-> 0]

(* C6 witness: an Exhausted call on a pool of two credentials. *)
ExhaustedPoolOfTwo ==
  \E p \in Procs :
    /\ Done(p) /\ outcome[p] = "Exhausted" /\ N = 2
    /\ storeCalls[p].incr = 2
    /\ \E q \in Procs : q # p /\ InFlight(q)

(* C7: with an empty pool every call fails with Misconfigured before any   *)
(* store call: the cursor and every counter stay as they were.             *)
EmptyPoolNoStoreCall ==
  Len(KEYS) = 0 =>
    /\ cursor = cursor0
    /\ \A k \in UsageKeys : usage[k] = 0 /\ ttl[k] = NoTTL
    /\ \A p \in Procs :
         /\ pc[p] \in {"idle", "done"}
         /\ storeCalls[p] = NoCalls
         /\ Done(p) => outcome[p] = "Misconfigured" /\ result[p] = NoKey

(* C7 witness: a call on the empty pool has failed. *)
EmptyPoolCalled ==
  /\ Len(KEYS) = 0
  /\ \E p \in Procs : Done(p) /\ outcome[p] = "Misconfigured"

(* C8: the value a call gets from a credential's counter never counts an  *)
(* attempt of another window; while the call's window lasts it is exactly  *)
(* the number of attempts made against the credential in that window, as   *)
(* if the counter were freshly reset, and the call returns the credential  *)
(* exactly when that number is within the quota.                           *)
WindowRollover ==
  \A p \in Procs :
    examined[p] # <<>> =>
      LET e == Last(examined[p])
          attempts == applied[<<e[1], currentMinute[p]>>]
      IN /\ e[2] <= attempts
         /\ CurrentMinute(now) = currentMinute[p] =>
              /\ e[2] = attempts
              /\ Done(p) => (outcome[p] = "Accepted"
                               <=> e[2] <= MAX_REQUESTS_PER_MINUTE)

(* C8 witness: a credential over quota in the first window, its counter    *)
(* still in the store, has been returned quota times in the next window.   *)
EligibleAgainNextWindow ==
  /\ CurrentMinute(now) # CurrentMinute(0)
  /\ usage[UsageKey(0, CurrentMinute(0))] > MAX_REQUESTS_PER_MINUTE
  /\ selected[<<0, CurrentMinute(now)>>] = MAX_REQUESTS_PER_MINUTE
  /\ Done(1) /\ outcome[1] = "Accepted"

(* C9: on a non-empty pool the cursor equals its initial value plus the    *)
(* number of calls that have made their cursor INCR, each finished call    *)
(* made exactly one, and concurrent callers hold distinct cursor values.   *)
CursorAccounting ==
  Len(KEYS) > 0 =>
    /\ cursor = cursor0 + calls
                  - Cardinality({p \in Procs : pc[p] = "incrCursor"})
    /\ \A p \in Procs :
         (Done(p) /\ outcome[p] \in {"Accepted", "Exhausted"}) =>
           storeCalls[p].cursor = 1
    /\ \A p \in Procs :
         globalCounter[p] > 0 => globalCounter[p] \in (cursor0 + 1)..cursor
    /\ \A p, q \in Procs :
         (p # q /\ globalCounter[p] > 0 /\ globalCounter[q] > 0) =>
           globalCounter[p] # globalCounter[q]

(* C9 witness: every call of the run was made, one caller's last call was  *)
(* accepted and the other's failed with Exhausted.                         *)
CursorAfterAllCalls ==
  /\ calls = maxCalls /\ cursor = cursor0 + calls
  /\ \E p, q \in Procs :
       /\ Done(p) /\ outcome[p] = "Accepted"
       /\ Done(q) /\ outcome[q] = "Exhausted"

(* C10: a call whose cursor INCR is rejected fails with the store's error, *)
(* returns no credential and makes no usage INCR and no EXPIRE.            *)
CursorFailureIsolated ==
  \A p \in Procs :
    failed[p] = "cursor" =>
      /\ Done(p) /\ outcome[p] = "StoreError" /\ result[p] = NoKey
      /\ storeCalls[p] = [cursor |-> 1, incr |-> 0, expire |-> 0]
      /\ examined[p] = <<>>

(* C10 witness: a cursor INCR was rejected while counters were in use. *)
CursorFailureSeen ==
  \E p \in Procs :
    /\ failed[p] = "cursor"
    /\ \E k \in UsageKeys : usage[k] > 0

(* C11: a call whose usage INCR is rejected ends there with the store's    *)
(* error and no credential: the rejected INCR is its last store call, the  *)
(* candidates after the failing one are never examined and no EXPIRE       *)
(* follows.                                                                *)
StoreFailureAbortsScan ==
  \A p \in Procs :
    failed[p] = "usage" =>
      /\ Done(p) /\ outcome[p] = "StoreError" /\ result[p] = NoKey
      /\ i[p] = Len(examined[p])
      /\ storeCalls[p].incr = Len(examined[p]) + 1
      /\ \A j \in 1..Len(examined[p]) :
           examined[p][j][2] > MAX_REQUESTS_PER_MINUTE

(* C11 witness: the usage INCR of the first of two candidates was rejected *)
(* and the second candidate's counter was left alone by the call.          *)
UsageFailureSeen ==
  \E p \in Procs :
    /\ failed[p] = "usage" /\ N = 2
    /\ storeCalls[p] = [cursor |-> 1, incr |-> 1, expire |-> 0]
    /\ applied[<<(startIndex[p] + 1) % 2, currentMinute[p]>>] = 0

(* C12 as stated: a call whose EXPIRE is rejected, after its INCR set the  *)
(* counter to 1, goes on to the threshold check and returns the            *)
(* credential.                                                             *)
ExpiryBestEffort ==
  \A p \in Procs :
    failed[p] = "expire" =>
      /\ Done(p) /\ outcome[p] = "Accepted"
      /\ result[p] = KEYS[Last(examined[p])[1] + 1]

(* The call of p is suspended on the EXPIRE of the usage key k. *)
SettingExpiry(p, k) ==
  /\ pc[p] = "expire"
  /\ k = UsageKey(Last(examined[p])[1], currentMinute[p])

(* C13 as stated: every usage counter in the store self-removes, whatever  *)
(* became of the call that created it: it has an expiry set, or the call   *)
(* that created it is about to set one, and it is gone once its deadline   *)
(* is reached.                                                             *)
CounterSelfRemoves ==
  \A k \in UsageKeys :
    usage[k] > 0 =>
      /\ ttl[k] = NoTTL => \E p \in Procs : SettingExpiry(p, k)
      /\ ttl[k] # NoTTL => ttl[k] > now

(* C14: the deadline of a usage counter lies after every instant of its    *)
(* window, and while the window lasts the counter holds every INCR applied *)
(* to it: it is never removed or reset before the window ends.             *)
CounterOutlivesWindow ==
  \A s \in Slots :
    LET k == UsageKey(s[1], WindowOf(s))
    IN /\ ttl[k] # NoTTL =>
            \A t \in Times : CurrentMinute(t) = WindowOf(s) => t < ttl[k]
       /\ InWindow(s) => usage[k] = applied[s]

(* C14 witness: a counter that took several INCRs in the first window was  *)
(* removed by its expiry, after that window had ended.                     *)
CounterRemovedAfterWindow ==
  \E s \in Slots :
    /\ WindowOf(s) = CurrentMinute(0) /\ ~InWindow(s)
    /\ applied[s] >= 2
    /\ usage[UsageKey(s[1], WindowOf(s))] = 0
    /\ now >= EXPIRE_SECONDS

(* A response that tells the client the service is busy and to try again,  *)
(* not a server failure.                                                   *)
ServiceBusy(response) == response.status = 429

(* C15 as stated: when a call has failed with Exhausted or with a store    *)
(* failure, the chat handler and the parse-sms handler both answer that    *)
(* the service is busy.                                                    *)
CallersSurfaceBusy ==
  \A p \in Procs :
    Done(p) =>
      \A m \in ErrorMessages(outcome[p]) :
        /\ ServiceBusy(ChatErrorResponse(m))
        /\ ServiceBusy(ParseSmsErrorResponse(m))

(* The usage counter of the slot has been in the store since its first     *)
(* INCR: no expiry has removed it.                                         *)
CounterLives(s) == usage[UsageKey(s[1], WindowOf(s))] = applied[s]

(* C16 as stated: for every credential and window, at most quota calls     *)
(* return the credential.                                                  *)
StrictWindowBound ==
  \A s \in Slots : selected[s] <= MAX_REQUESTS_PER_MINUTE

(* C16 amended: under any interleaving, for every credential and window,   *)
(* at most quota calls return the credential for as long as the window     *)
(* lasts or its counter lives; a call returns the credential only on an    *)
(* INCR answer in 1..quota, and no two callers get the same answer from a  *)
(* living counter.                                                         *)
StrictBoundWhileCounterLives ==
  /\ \A s \in Slots :
       (InWindow(s) \/ CounterLives(s)) =>
         selected[s] <= MAX_REQUESTS_PER_MINUTE
  /\ \A p \in Procs :
       (Done(p) /\ outcome[p] = "Accepted") =>
         /\ Last(examined[p])[2] \in 1..MAX_REQUESTS_PER_MINUTE
         /\ result[p] = KEYS[Last(examined[p])[1] + 1]
  /\ \A p, q \in Procs :
       (/\ p # q /\ examined[p] # <<>> /\ examined[q] # <<>>
        /\ currentMinute[p] = currentMinute[q]
        /\ Last(examined[p])[1] = Last(examined[q])[1]
        /\ CounterLives(<<Last(examined[p])[1], currentMinute[p]>>)) =>
         Last(examined[p])[2] # Last(examined[q])[2]

(* C16 witness: two overlapping calls raced for the last slot of a living  *)
(* counter; the one that drew the cursor later got the slot, the other     *)
(* got quota + 1 and no credential.                                        *)
LastSlotTakenOnce ==
  \E s \in Slots : \E p, q \in Procs :
    /\ InWindow(s) /\ CounterLives(s)
    /\ selected[s] = MAX_REQUESTS_PER_MINUTE
    /\ Done(p) /\ outcome[p] = "Accepted"
    /\ Last(examined[p]) = <<s[1], MAX_REQUESTS_PER_MINUTE>>
    /\ Done(q) /\ outcome[q] = "Exhausted"
    /\ Last(examined[q]) = <<s[1], MAX_REQUESTS_PER_MINUTE + 1>>
    /\ globalCounter[q] < globalCounter[p]

(* The counters a call found at 1, for which it owes an EXPIRE. *)
FirstUses(p) ==
  Cardinality({j \in 1..Len(examined[p]) : examined[p][j][2] = 1})

(* C17: a call makes its cursor INCR before any usage INCR; it examines    *)
(* the candidates start, start + 1, ... (mod N) in that order, with        *)
(* start = cursor mod N, at most N of them; for each candidate the INCR    *)
(* comes first, the EXPIRE (when the INCR answered 1) second and the       *)
(* threshold check last; the scan went past a candidate only when it was   *)
(* over the quota, and it ends with the first accepted candidate, whose    *)
(* credential is returned.                                                 *)
ScanProtocol ==
  \A p \in Procs :
    /\ pc[p] = "incrCursor" => storeCalls[p] = NoCalls
    /\ pc[p] \in {"incrUsage", "expire"} =>
         /\ storeCalls[p].cursor = 1
         /\ startIndex[p] = globalCounter[p] % N
         /\ outcome[p] = "none"
    /\ storeCalls[p].incr > 0 => storeCalls[p].cursor = 1
    /\ storeCalls[p].incr = Len(examined[p])
    /\ Len(examined[p]) <= N
    /\ \A j \in 1..Len(examined[p]) :
         /\ examined[p][j][1] = (startIndex[p] + (j - 1)) % N
         /\ j < Len(examined[p]) =>
              examined[p][j][2] > MAX_REQUESTS_PER_MINUTE
    /\ pc[p] = "expire" =>
         /\ Last(examined[p])[2] = 1
         /\ storeCalls[p].expire = FirstUses(p) - 1
    /\ pc[p] # "expire" => storeCalls[p].expire = FirstUses(p)
    /\ pc[p] = "incrUsage" =>
         /\ i[p] = Len(examined[p])
         /\ \A j \in 1..Len(examined[p]) :
              examined[p][j][2] > MAX_REQUESTS_PER_MINUTE
    /\ (Done(p) /\ outcome[p] = "Accepted") =>
         /\ Last(examined[p])[2] <= MAX_REQUESTS_PER_MINUTE
         /\ result[p] = KEYS[Last(examined[p])[1] + 1]
    /\ (Done(p) /\ outcome[p] = "Exhausted") =>
         /\ Len(examined[p]) = N
         /\ Last(examined[p])[2] > MAX_REQUESTS_PER_MINUTE

(* C17 witness: a call that started at the last index of a pool of two,    *)
(* found that credential over the quota, wrapped to index 0 and returned   *)
(* the first credential.                                                   *)
ScanWrappedAndAccepted ==
  \E p \in Procs :
    /\ Done(p) /\ outcome[p] = "Accepted" /\ N = 2
    /\ Len(examined[p]) = 2
    /\ examined[p][1][1] = 1 /\ examined[p][2][1] = 0
    /\ result[p] = KEYS[1]

(* The INCRs a call made are in the counters: it incremented each examined *)
(* candidate once and, until the window ends, each counter holds at least  *)
(* the value the call was answered and all the INCRs applied to it.        *)
IncrementsPersist ==
  /\ \A p \in Procs :
       /\ Cardinality({examined[p][j][1] : j \in 1..Len(examined[p])})
            = Len(examined[p])
       /\ storeCalls[p].incr
            = Len(examined[p]) + (IF failed[p] = "usage" THEN 1 ELSE 0)
       /\ \A j \in 1..Len(examined[p]) :
            InWindow(<<examined[p][j][1], currentMinute[p]>>) =>
              usage[UsageKey(examined[p][j][1], currentMinute[p])]
                >= examined[p][j][2]
  /\ \A s \in Slots :
       InWindow(s) => usage[UsageKey(s[1], WindowOf(s))] = applied[s]

(* C18: no step of a call lowers a counter or raises it by more than 1,    *)
(* and after every step the INCRs made so far persist: each examined       *)
(* candidate was incremented exactly once by the call, accepted or         *)
(* rejected, and its counter keeps the increment also after the call       *)
(* failed, was rejected by every candidate or was abandoned.               *)
CountersNeverLowered ==
  [][/\ IncrementsPersist'
     /\ now' = now =>
          /\ \A k \in UsageKeys : usage'[k] \in {usage[k], usage[k] + 1}
          /\ Cardinality({k \in UsageKeys : usage'[k] # usage[k]}) <= 1]_vars

(* C18 witness: a counter took four INCRs in its window: one of a call     *)
(* that failed or was abandoned after it, two of calls that returned the   *)
(* credential and one of the call just rejected; it holds all four.        *)
IncrementsKeptAfterAbandon ==
  \E s \in Slots :
    /\ InWindow(s) /\ Done(1) /\ outcome[1] = "Exhausted"
    /\ Last(examined[1]) = <<s[1], MAX_REQUESTS_PER_MINUTE + 1>>
    /\ selected[s] = MAX_REQUESTS_PER_MINUTE - 1
    /\ usage[UsageKey(s[1], WindowOf(s))] = MAX_REQUESTS_PER_MINUTE + 1

(* C19: a call issues an EXPIRE on a usage key exactly when its own INCR   *)
(* of that key answered 1: it is suspended on the EXPIRE only after such   *)
(* an answer, and the EXPIREs it has issued are as many as the answers 1   *)
(* it got; so a counter in the store either has its expiry or has exactly  *)
(* one call about to set it, the one that created it.                      *)
ExpiryOnlyOnFirstUse ==
  /\ \A p \in Procs :
       /\ pc[p] = "expire" => Last(examined[p])[2] = 1
       /\ storeCalls[p].expire =
            FirstUses(p) - (IF pc[p] = "expire" THEN 1 ELSE 0)
       /\ (examined[p] # <<>> /\ Last(examined[p])[2] > 1) =>
            pc[p] # "expire"
  /\ \A k \in UsageKeys :
       usage[k] > 0 =>
         Cardinality({p \in Procs : SettingExpiry(p, k)})
           = (IF ttl[k] = NoTTL THEN 1 ELSE 0)

(* C19 witness: a counter was created a second time, after its expiry had  *)
(* removed it; the call whose INCR answered 1 set the new expiry, and      *)
(* another call, answered more than 1, issued no EXPIRE.                   *)
ExpirySetAgainOnRecreation ==
  \E p, q \in Procs : \E k \in UsageKeys :
    /\ Done(p) /\ examined[p] = <<<<k[1], 1>>>> /\ currentMinute[p] = k[2]
    /\ storeCalls[p].expire = 1
    /\ applied[<<k[1], k[2]>>] > usage[k]
    /\ ttl[k] = Deadline(EXPIRE_SECONDS)
    /\ Done(q) /\ examined[q] # <<>> /\ Last(examined[q])[2] > 1
    /\ storeCalls[q].expire = 0

(* C20: when every store call returns, a call is never blocked, it makes   *)
(* at most 1 cursor INCR, N usage INCRs and N EXPIREs, and it ends with a  *)
(* credential or an error.                                                 *)
NoBlockingBoundedWork ==
  /\ [](\A p \in Procs :
          /\ storeCalls[p].cursor <= 1
          /\ storeCalls[p].incr <= N
          /\ storeCalls[p].expire <= N
          /\ InFlight(p) => ENABLED StoreAnswers(p)
          /\ Done(p) =>
               \/ outcome[p] = "Accepted" /\ result[p] # NoKey
               \/ outcome[p] \in {"Exhausted", "Misconfigured"}
                    /\ result[p] = NoKey)
  /\ \A p \in Procs : InFlight(p) ~> Done(p)

(* C20 witness: a call ended with Exhausted on its N-th usage INCR while   *)
(* another call was in flight.                                             *)
ExhaustedWithoutWaiting ==
  \E p, q \in Procs :
    /\ Done(p) /\ outcome[p] = "Exhausted"
    /\ storeCalls[p] = [cursor |-> 1, incr |-> N, expire |-> 0]
    /\ InFlight(q)

(* Calls that returned a credential of index below n in the window w. *)
RECURSIVE Returned(_, _)
Returned(n, w) ==
  IF n = 0 THEN 0 ELSE selected[<<n - 1, w>>] + Returned(n - 1, w)

(* C21: one sequential caller, fresh counters, first window: each of the   *)
(* first N*Q calls returns a credential, no credential more than Q times   *)
(* and each exactly Q times once N*Q calls are made; the call after that   *)
(* examines all N credentials, takes each counter to Q + 1 and fails with  *)
(* Exhausted, and so does every later call of the window.                  *)
SequentialCapacity ==
  (now = 0 /\ Done(1)) =>
    LET w == CurrentMinute(0)
        capacity == N * MAX_REQUESTS_PER_MINUTE
    IN /\ \A x \in 0..(N - 1) : selected[<<x, w>>] <= MAX_REQUESTS_PER_MINUTE
       /\ CallNo <= capacity =>
            /\ outcome[1] = "Accepted"
            /\ Returned(N, w) = CallNo
       /\ CallNo > capacity =>
            /\ outcome[1] = "Exhausted" /\ result[1] = NoKey
            /\ Returned(N, w) = capacity
            /\ {examined[1][j][1] : j \in 1..Len(examined[1])} = 0..(N - 1)
            /\ \A j \in 1..Len(examined[1]) :
                 examined[1][j][2]
                   = MAX_REQUESTS_PER_MINUTE + (CallNo - capacity)
            /\ \A x \in 0..(N - 1) :
                 usage[UsageKey(x, w)]
                   = MAX_REQUESTS_PER_MINUTE + (CallNo - capacity)

(* C21 witness: on a pool of three the tenth call of the window took every *)
(* counter to Q + 1 and failed, after each credential was returned Q       *)
(* times.                                                                  *)
TenthCallExhausted ==
  /\ now = 0 /\ Done(1) /\ N = 3
  /\ CallNo = 3 * MAX_REQUESTS_PER_MINUTE + 1
  /\ outcome[1] = "Exhausted"
  /\ \A x \in 0..2 :
       /\ selected[<<x, CurrentMinute(0)>>] = MAX_REQUESTS_PER_MINUTE
       /\ usage[UsageKey(x, CurrentMinute(0))] = MAX_REQUESTS_PER_MINUTE + 1

(* The calendar minute an instant lies in, counted from the start of the   *)
(* clock.                                                                  *)
MinuteOf(t) == t \div SECONDS_PER_MINUTE

Steps(p) == pc'[p] # pc[p] \/ i'[p] # i[p] \/ storeCalls'[p] # storeCalls[p]

(* C23: what a step of a call does to the store is fixed by the size of    *)
(* the pool, the cursor value the call drew, its position in the scan and  *)
(* its window identifier: the cursor INCR, the INCR of the counter at the  *)
(* candidate's index, the EXPIRE of that counter; the credentials do not   *)
(* enter, so pools of one size with different credentials see the same     *)
(* store operations.                                                       *)
SecretFreeStore ==
  [][\A p \in Procs :
       Steps(p) =>
         LET index == ((globalCounter[p] % Len(KEYS)) + i[p]) % Len(KEYS)
             key == <<index, currentMinute[p]>>
         IN CASE pc[p] = "incrCursor" ->
                   /\ cursor' = cursor + 1
                   /\ usage' = usage /\ ttl' = ttl
              [] pc[p] = "incrUsage" ->
                   /\ usage' = [usage EXCEPT ![key] = @ + 1]
                   /\ cursor' = cursor /\ ttl' = ttl
              [] pc[p] = "expire" ->
                   /\ ttl' = [ttl EXCEPT ![key] = now + EXPIRE_SECONDS]
                   /\ cursor' = cursor /\ usage' = usage
              [] OTHER ->
                   cursor' = cursor /\ usage' = usage /\ ttl' = ttl]_vars

(* C23 witness: in a pool that holds one credential twice the two indexes  *)
(* have counters of their own, with different values.                      *)
EqualSecretsOwnCounters ==
  /\ KEYS = <<"A", "A">>
  /\ usage[UsageKey(0, CurrentMinute(0))] = 1
  /\ usage[UsageKey(1, CurrentMinute(0))] = 2
  /\ \E p \in Procs : Done(p) /\ result[p] = "A"

(***************************************************************************)
(* C24  Pool loading.  The pool is the list of the non-empty values of     *)
(* GOOGLE_API_KEY1..GOOGLE_API_KEY10 in increasing number order: a         *)
(* variable that is unset or empty contributes nothing, the value of the   *)
(* j-th configured variable is at index j-1, so N is the number of         *)
(* configured variables and at most 10; and no step of any call changes    *)
(* the pool or the environment it was loaded from.                         *)
(***************************************************************************)
Configured == {s \in 1..KEY_SLOTS : env[s] # Unset /\ env[s] # ""}

Rank(s) == Cardinality({r \in Configured : r <= s})

PoolIsCompactedEnv ==
  /\ Len(KEYS) = Cardinality(Configured)
  /\ Len(KEYS) <= KEY_SLOTS
  /\ \A s \in Configured : KEYS[Rank(s)] = env[s]

PoolLoading == [][PoolIsCompactedEnv' /\ KEYS' = KEYS /\ env' = env]_vars

(* Witness: GOOGLE_API_KEY1 holds A, GOOGLE_API_KEY2 is empty and          *)
(* GOOGLE_API_KEY10 holds B; the pool is [A, B] and a call has returned    *)
(* the credential of GOOGLE_API_KEY10 from index 1.                        *)
PoolCompactedOverGap ==
  /\ env[1] = "A" /\ env[2] = "" /\ env[KEY_SLOTS] = "B"
  /\ KEYS = <<"A", "B">>
  /\ \E p \in Procs : outcome[p] = "Accepted" /\ result[p] = "B"

(***************************************************************************)
(* C25  Rejected increments waste no slot.                                 *)
(***************************************************************************)
Quiescent == \A p \in Procs : ~InFlight(p)

(* The answers of usage INCRs a finished call was given and did not        *)
(* return a credential on.                                                 *)
RejectedAnswers(p) ==
  {examined[p][j][2] :
     j \in {n \in 1..Len(examined[p]) :
              ~(outcome[p] = "Accepted" /\ n = Len(examined[p]))}}

(* Every rejected INCR answer is above the quota, and a call returns the   *)
(* credential its INCR answered in 1..quota for.                           *)
RejectedAboveQuota ==
  \A p \in Procs :
    Done(p) =>
      /\ \A u \in RejectedAnswers(p) : u > MAX_REQUESTS_PER_MINUTE
      /\ \A j \in 1..Len(examined[p]) :
           examined[p][j][2] \in 1..MAX_REQUESTS_PER_MINUTE =>
             /\ outcome[p] = "Accepted"
             /\ j = Len(examined[p])
             /\ result[p] = KEYS[examined[p][j][1] + 1]

(* C25 as stated: without store failure or abandonment every rejected      *)
(* INCR answer is above the quota, and once no call is in flight, for      *)
(* every credential and window whose counter is in the store, the number   *)
(* of calls that returned the credential is min(counter value, quota).     *)
RejectedWasteNoSlot ==
  /\ RejectedAboveQuota
  /\ Quiescent =>
       \A s \in Slots :
         usage[UsageKey(s[1], WindowOf(s))] > 0 =>
           selected[s] =
             Min(usage[UsageKey(s[1], WindowOf(s))], MAX_REQUESTS_PER_MINUTE)

(* C25 amended: without store failure or abandonment every rejected INCR   *)
(* answer is above the quota, and once no call is in flight, for every     *)
(* credential and window whose counter no expiry has removed since its     *)
(* first INCR, the number of calls that returned the credential is         *)
(* min(counter value, quota).                                              *)
RejectedWasteNoSlotWhileCounterLives ==
  /\ RejectedAboveQuota
  /\ Quiescent =>
       \A s \in Slots :
         CounterLives(s) =>
           selected[s] =
             Min(usage[UsageKey(s[1], WindowOf(s))], MAX_REQUESTS_PER_MINUTE)

(* C25 witness: no call is in flight, a living counter stands above the    *)
(* quota after a rejected INCR, and exactly quota calls returned its       *)
(* credential.                                                             *)
QuotaCallsReturnedRestRejected ==
  /\ Quiescent
  /\ \E s \in Slots :
       /\ CounterLives(s)
       /\ usage[UsageKey(s[1], WindowOf(s))] > MAX_REQUESTS_PER_MINUTE
       /\ selected[s] = MAX_REQUESTS_PER_MINUTE
       /\ \E p \in Procs :
            /\ Done(p) /\ outcome[p] = "Exhausted"
            /\ currentMinute[p] = WindowOf(s)

(***************************************************************************)
(* C26  Exhausted is sound.                                                *)
(***************************************************************************)
(* The step in which the call of p fails with Exhausted. *)
ReportsExhausted(p) ==
  pc[p] # "done" /\ pc'[p] = "done" /\ outcome'[p] = "Exhausted"

(* What the call of p has done when it reports: one INCR on each of the N  *)
(* counters of its window, each answered above the quota.                  *)
ExaminedAllAboveQuota(p) ==
  /\ Len(examined'[p]) = N
  /\ storeCalls'[p].incr = N
  /\ {examined'[p][j][1] : j \in 1..N} = 0..(N - 1)
  /\ \A j \in 1..N : examined'[p][j][2] > MAX_REQUESTS_PER_MINUTE

Enters(p) == ~InFlight(p) /\ InFlight(p)'

IncrementedKeys == {k \in UsageKeys : usage'[k] > usage[k]}

OwnWindowKeys(p) == {UsageKey(x, CurrentMinute(date[p])) : x \in 0..(N - 1)}

(* What the step means for the call of p. *)
KeepsWindow(p) ==
  /\ Enters(p) =>
       /\ date'[p] = now
       /\ currentMinute'[p] = CurrentMinute(now)
       /\ storeCalls'[p].cursor = 0
  /\ InFlight(p) =>
       /\ currentMinute[p] = CurrentMinute(date[p])
       /\ currentMinute'[p] = currentMinute[p]
       /\ date'[p] = date[p]
  /\ (InFlight(p) /\ examined'[p] # examined[p]) =>
       /\ IncrementedKeys \subseteq OwnWindowKeys(p)
       /\ \E k \in IncrementedKeys :
            /\ k = UsageKey(Last(examined'[p])[1], currentMinute[p])
            /\ usage'[k] = Last(examined'[p])[2]
  /\ (InFlight(p) /\ Done(p)' /\ outcome'[p] = "Accepted") =>
       LET s == <<Last(examined'[p])[1], CurrentMinute(date[p])>>
       IN /\ Last(examined'[p])[2] \in 1..MAX_REQUESTS_PER_MINUTE
          /\ selected' = [selected EXCEPT ![s] = @ + 1]

(* Every INCR of a usage counter is the INCR of a call in flight. *)
IncrementsAreCalls ==
  IncrementedKeys # {} =>
    \E p \in Procs : InFlight(p) /\ examined'[p] # examined[p]

WindowFixedAtCallStart ==
  [][IncrementsAreCalls /\ \A p \in Procs : KeepsWindow(p)]_vars

(* C27 witness: a call that entered in one minute was accepted in a later  *)
(* one on its old window's counter, and no counter of the minute in which  *)
(* it ended has been touched.                                              *)
AcceptedOnOldWindow ==
  \E p \in Procs :
    /\ Done(p) /\ outcome[p] = "Accepted"
    /\ endMinute[p] # currentMinute[p]
    /\ applied[<<Last(examined[p])[1], currentMinute[p]>>] > 0
    /\ \A x \in 0..(N - 1) : applied[<<x, endMinute[p]>>] = 0

(***************************************************************************)
(* C28  Agent ordering around acquisition.                                 *)
(***************************************************************************)
Rows == {messages[j] : j \in 1..Len(messages)}

PastAcquisition ==
  agentPc \in {"acquiring", "stream", "loop", "tools", "saveModel", "done"}

(* The call the agent made for this user message has answered, and not     *)
(* with a credential.                                                      *)
AcquisitionFailed ==
  /\ acquisitions = 1 /\ agentPc # "acquiring"
  /\ pc[1] = "done" /\ outcome[1] # "Accepted"

(* One call of getAvailableKey per user message, and after a failed one    *)
(* the turn has ended without request to the model and without model row.  *)
OneAcquisitionNoModelOnFailure ==
  /\ acquisitions <= 1
  /\ PastAcquisition => acquisitions = 1
  /\ AcquisitionFailed =>
       /\ agentPc = "failed"
       /\ ~modelRequested
       /\ Row("model") \notin Rows

ToolCallCap == toolCallCount <= MAX_TOOL_CALLS
====
